---- MODULE Spec2Model ----
(***************************************************************************)
(* A model of fclip (src/src/main.rs): token estimation, content loading,  *)
(* path resolution, budgeted sequential and parallel extraction,           *)
(* compression, rendering (format_output) and chunked output.              *)
(*                                                                         *)
(* A Rust String / &str is modelled as what it is: a sequence of bytes     *)
(* (0..255) that is valid UTF-8.  len() is the length of that sequence and *)
(* chars() is its decoding into Unicode scalar values.  A file's content   *)
(* on disk is an arbitrary byte sequence.  A path is a byte sequence too;  *)
(* 47 is '/', 92 is '\'.                                                   *)
(***************************************************************************)
EXTENDS Integers, Sequences, FiniteSets, TLC

VARIABLES
    \* ---- estimate_tokens called on its own
    text,            \* the &str argument
    estimated,       \* the value returned
    tok_pc,          \* "idle" | "call" | "done"
    \* ---- extraction: the configuration (Cli) and the candidate list
    file_paths,      \* all_file_paths: Vec<PathBuf>, sorted, no duplicates
    max_size_bytes,  \* usize
    max_tokens,      \* Option<usize>: <<>> is None, <<n>> is Some(n)
    exclude_empty,   \* cli.exclude_empty
    output_file,     \* cli.output_file: <<>> is None, <<path>> is Some(path)
    dry_run,         \* cli.dry_run
    ext_pc,          \* "idle" | "run" | "done"
    \* ---- process_files_parallel
    wpc,             \* per candidate: where its task of the par_iter stands
    wcontent,        \* per candidate: the task's local `content`
    total_size,      \* Arc<AtomicUsize>
    total_tokens,    \* Arc<AtomicUsize>
    results,         \* the (path, content) pairs returned Some, as collected
    final_results,   \* the Vec returned
    \* ---- the dry-run loop of main
    dry_i,           \* index of the next candidate of the for loop
    files_data,      \* Vec<(PathBuf, String)>
    total_size_bytes,
    dry_total_tokens, \* main's local total_tokens
    \* ---- path resolution in main
    cli_paths,       \* cli.paths: the roots, in order
    use_gitignore,   \* cli.use_gitignore
    auto_exclude_common, \* cli.auto_exclude_common
    unignore_patterns,   \* Vec<Pattern>
    root_i,          \* index of the root the for loop is at
    walk_pc,         \* "idle" | "primary" | "override" | "collect" | "done"
    pending,         \* entries the current walker has yet to yield
    found_files,     \* HashSet<PathBuf>
    all_file_paths,  \* the sorted Vec main goes on with
    \* ---- write_output_chunks
    formatted_output, \* the String handed over as `content`
    chunk_size,      \* usize
    append,          \* cli.append_to_file
    chunks,          \* Vec<&str>
    chunk_i,         \* the loop's i, counted from 1
    out_pc,          \* "idle" | "call" | "loop" | "ok" | "err" | "panic"
    file_ops,        \* what was done to the files, in order
    \* ---- the normalization of process_single_file called on its own
    norm_content,    \* the String read_to_string returned
    norm_result,     \* the String handed on
    norm_pc,         \* "idle" | "call" | "done"
    \* ---- compress_content called on its own
    cmp_content,     \* the &str argument
    cmp_result,      \* the String returned
    cmp_pc,          \* "idle" | "call" | "done"
    \* ---- format_output
    fmt_files,       \* files: &[(PathBuf, String)]
    format,          \* cli.format
    group_by_type,   \* cli.group_by_type
    compress,        \* cli.compress
    include_structure,    \* cli.include_structure
    include_dependencies, \* cli.include_dependencies
    fmt_output,      \* what is returned: the pieces pushed, or the JSON value
    fmt_pc           \* "idle" | "call" | "done"

tokVars == <<text, estimated, tok_pc>>

cfgVars == <<file_paths, max_size_bytes, max_tokens, exclude_empty, output_file,
             dry_run>>

parVars == <<wpc, wcontent, total_size, total_tokens, results, final_results>>

dryVars == <<dry_i, files_data, total_size_bytes, dry_total_tokens>>

extVars == <<cfgVars, ext_pc, parVars, dryVars>>

walkCfgVars == <<cli_paths, use_gitignore, auto_exclude_common, unignore_patterns>>

walkVars == <<walkCfgVars, root_i, walk_pc, pending, found_files, all_file_paths>>

outVars == <<formatted_output, chunk_size, append, chunks, chunk_i, out_pc, file_ops>>

normVars == <<norm_content, norm_result, norm_pc>>

cmpVars == <<cmp_content, cmp_result, cmp_pc>>

fmtVars == <<fmt_files, format, group_by_type, compress, include_structure,
             include_dependencies, fmt_output, fmt_pc>>

renderVars == <<normVars, cmpVars, fmtVars>>

vars == <<tokVars, extVars, walkVars, outVars, renderVars>>

-----------------------------------------------------------------------------
(* What each group of variables holds while its part of the program is    *)
(* not the one being run.                                                  *)

IdleTokens == text = <<>> /\ estimated = 0 /\ tok_pc = "idle"

IdleExtract ==
    /\ file_paths = <<>>
    /\ max_size_bytes = 0
    /\ max_tokens = <<>>
    /\ exclude_empty = FALSE
    /\ output_file = <<>>
    /\ dry_run = FALSE
    /\ ext_pc = "idle"
    /\ wpc = <<>>
    /\ wcontent = <<>>
    /\ total_size = 0
    /\ total_tokens = 0
    /\ results = <<>>
    /\ final_results = <<>>
    /\ dry_i = 1
    /\ files_data = <<>>
    /\ total_size_bytes = 0
    /\ dry_total_tokens = 0

IdleWalk ==
    /\ cli_paths = <<>>
    /\ use_gitignore = FALSE
    /\ auto_exclude_common = FALSE
    /\ unignore_patterns = <<>>
    /\ root_i = 1
    /\ walk_pc = "idle"
    /\ pending = {}
    /\ found_files = {}
    /\ all_file_paths = <<>>

IdleOut ==
    /\ formatted_output = <<>>
    /\ chunk_size = 0
    /\ append = FALSE
    /\ chunks = <<>>
    /\ chunk_i = 1
    /\ out_pc = "idle"
    /\ file_ops = <<>>

IdleNormalize == norm_content = <<>> /\ norm_result = <<>> /\ norm_pc = "idle"

IdleCompress == cmp_content = <<>> /\ cmp_result = <<>> /\ cmp_pc = "idle"

IdleFormat ==
    /\ fmt_files = <<>>
    /\ format = "Default"
    /\ group_by_type = FALSE
    /\ compress = FALSE
    /\ include_structure = FALSE
    /\ include_dependencies = FALSE
    /\ fmt_output = <<>>
    /\ fmt_pc = "idle"

IdleRender == IdleNormalize /\ IdleCompress /\ IdleFormat

-----------------------------------------------------------------------------
(* Bounds of the model.                                                    *)

\* longest text, in Unicode scalars, handed to estimate_tokens on its own
MaxTextChars == 3

\* most candidate files of one extraction run
MaxFiles == 3

\* largest byte budget tried (max_size_bytes)
MaxBudgetBytes == 6

\* largest token budget tried (cli.max_tokens)
MaxBudgetTokens == 3

\* most root paths on one command line
MaxRoots == 2

\* longest formatted output, in Unicode scalars, handed to write_output_chunks
MaxOutputChars == 3

\* largest chunk size tried
MaxChunkSize == 3

-----------------------------------------------------------------------------
(* Sequences and arithmetic.                                               *)

Range(s) == {s[i] : i \in 1..Len(s)}

Max(a, b) == IF a >= b THEN a ELSE b

Min(a, b) == IF a <= b THEN a ELSE b

CeilDiv(a, b) == (a + b - 1) \div b

RECURSIVE SumSeq(_)
SumSeq(s) == IF s = <<>> THEN 0 ELSE Head(s) + SumSeq(Tail(s))

RECURSIVE Flatten(_)
Flatten(ss) == IF ss = <<>> THEN <<>> ELSE Head(ss) \o Flatten(Tail(ss))

\* all sequences over S of length at most n
SeqsUpTo(S, n) == UNION {[1..k -> S] : k \in 0..n}

-----------------------------------------------------------------------------
(* UTF-8: the encoding behind String, str::from_utf8 and read_to_string.   *)

IsCont(b) == b >= 128 /\ b <= 191

\* number of bytes of the well-formed UTF-8 sequence starting at b[i], or 0
\* when none starts there (Unicode table 3-7, as core::str::from_utf8)
Utf8SeqLen(b, i) ==
    LET c == b[i]
        n == Len(b)
    IN  IF c < 128 THEN 1
        ELSE IF c >= 194 /\ c <= 223
            THEN IF i + 1 <= n /\ IsCont(b[i + 1]) THEN 2 ELSE 0
        ELSE IF c >= 224 /\ c <= 239
            THEN IF /\ i + 2 <= n
                    /\ IsCont(b[i + 1])
                    /\ IsCont(b[i + 2])
                    /\ (c = 224 => b[i + 1] >= 160)
                    /\ (c = 237 => b[i + 1] <= 159)
                 THEN 3 ELSE 0
        ELSE IF c >= 240 /\ c <= 244
            THEN IF /\ i + 3 <= n
                    /\ IsCont(b[i + 1])
                    /\ IsCont(b[i + 2])
                    /\ IsCont(b[i + 3])
                    /\ (c = 240 => b[i + 1] >= 144)
                    /\ (c = 244 => b[i + 1] <= 143)
                 THEN 4 ELSE 0
        ELSE 0

RECURSIVE Utf8ValidFrom(_, _)
Utf8ValidFrom(b, i) ==
    IF i > Len(b) THEN TRUE
    ELSE LET k == Utf8SeqLen(b, i)
         IN  k > 0 /\ Utf8ValidFrom(b, i + k)

\* std::str::from_utf8(bytes).is_ok()
from_utf8_ok(bytes) == Utf8ValidFrom(bytes, 1)

\* the scalar value encoded by the k bytes at b[i]
Utf8Scalar(b, i, k) ==
    IF k = 1 THEN b[i]
    ELSE IF k = 2 THEN (b[i] - 192) * 64 + (b[i + 1] - 128)
    ELSE IF k = 3 THEN (b[i] - 224) * 4096 + (b[i + 1] - 128) * 64 + (b[i + 2] - 128)
    ELSE (b[i] - 240) * 262144 + (b[i + 1] - 128) * 4096
             + (b[i + 2] - 128) * 64 + (b[i + 3] - 128)

\* str::chars(): the scalar values of a valid UTF-8 string, in order
RECURSIVE CharsFrom(_, _)
CharsFrom(s, i) ==
    IF i > Len(s) THEN <<>>
    ELSE LET k == Utf8SeqLen(s, i)
         IN  <<Utf8Scalar(s, i, k)>> \o CharsFrom(s, i + k)

chars(s) == CharsFrom(s, 1)

\* the UTF-8 bytes of one scalar value (char::encode_utf8)
encode_utf8(cp) ==
    IF cp < 128 THEN <<cp>>
    ELSE IF cp < 2048 THEN <<192 + (cp \div 64), 128 + (cp % 64)>>
    ELSE IF cp < 65536
        THEN <<224 + (cp \div 4096), 128 + ((cp \div 64) % 64), 128 + (cp % 64)>>
    ELSE <<240 + (cp \div 262144), 128 + ((cp \div 4096) % 64),
           128 + ((cp \div 64) % 64), 128 + (cp % 64)>>

\* the String holding the given scalar values
StringOf(cps) == Flatten([i \in 1..Len(cps) |-> encode_utf8(cps[i])])

-----------------------------------------------------------------------------
(* estimate_tokens                                                         *)

is_ascii_whitespace(c) == c \in {32, 9, 10, 12, 13}

is_ascii_punctuation(c) ==
    \/ (c >= 33 /\ c <= 47)
    \/ (c >= 58 /\ c <= 64)
    \/ (c >= 91 /\ c <= 96)
    \/ (c >= 123 /\ c <= 126)

is_ascii(c) == c < 128

\* the match of lines 31-37: the class a character is counted in
CharClass(c) ==
    IF c = 10 THEN "newline"
    ELSE IF is_ascii_whitespace(c) THEN "whitespace"
    ELSE IF is_ascii_punctuation(c) THEN "punctuation"
    ELSE IF is_ascii(c) THEN "ascii"
    ELSE "unicode"

CountClass(cs, cl) == Cardinality({i \in 1..Len(cs) : CharClass(cs[i]) = cl})

\* { } ( ) [ ] ; = "
CodeIndicatorChars == {123, 125, 40, 41, 91, 93, 59, 61, 34}

\* The f64 arithmetic of lines 40-53 is carried out exactly, on rationals:
\* base_tokens is a multiple of 1/4, code_factor is 13/10 or 1, length_factor
\* is 95/100, 1 or 11/10, complexity_factor is (bytes + 9*chars)/(10*chars).
\* `estimated as usize` truncates the product toward zero.
EstimatedTrunc(cs, bytes) ==
    LET n             == Len(cs)
        base4         == 3 * CountClass(cs, "ascii")
                         + 1 * CountClass(cs, "whitespace")
                         + 4 * CountClass(cs, "punctuation")
                         + 6 * CountClass(cs, "unicode")
                         + 4 * CountClass(cs, "newline")
        code_indicators == Cardinality({i \in 1..n : cs[i] \in CodeIndicatorChars})
        code10        == IF code_indicators > n \div 20 THEN 13 ELSE 10
        length100     == IF n > 10000 THEN 95 ELSE IF n > 1000 THEN 100 ELSE 110
        complexityNum == bytes + 9 * Max(n, 1)
        complexityDen == 10 * Max(n, 1)
    IN  (base4 * code10 * length100 * complexityNum)
            \div (4 * 10 * 100 * complexityDen)

\* lines 55-58
ClampEstimate(est, n) == Min(Max(est, n \div 6), n * 2)

estimate_tokens(t) ==
    IF t = <<>> THEN 0
    ELSE LET cs == chars(t)
         IN  ClampEstimate(EstimatedTrunc(cs, Len(t)), Len(cs))

-----------------------------------------------------------------------------
(* Paths.  PathBuf's Ord (used by paths.sort() and a.0.cmp(&b.0)) compares *)
(* the component sequences lexicographically, each component bytewise.     *)

RECURSIVE SplitOn(_, _)
SplitOn(s, sep) ==
    IF \A i \in 1..Len(s) : s[i] # sep THEN <<s>>
    ELSE LET k == CHOOSE i \in 1..Len(s) :
                      s[i] = sep /\ \A j \in 1..(i - 1) : s[j] # sep
         IN  <<SubSeq(s, 1, k - 1)>> \o SplitOn(SubSeq(s, k + 1, Len(s)), sep)

components(path) == SplitOn(path, 47)

\* Path::file_name(): the last component
file_name(path) == LET c == components(path) IN c[Len(c)]

\* a < b for two byte strings (slice Ord: lexicographic, bytewise)
RECURSIVE BytesLess(_, _)
BytesLess(a, b) ==
    IF b = <<>> THEN FALSE
    ELSE IF a = <<>> THEN TRUE
    ELSE IF Head(a) < Head(b) THEN TRUE
    ELSE IF Head(b) < Head(a) THEN FALSE
    ELSE BytesLess(Tail(a), Tail(b))

\* lexicographic order of two component sequences
RECURSIVE ComponentsLess(_, _)
ComponentsLess(a, b) ==
    IF b = <<>> THEN FALSE
    ELSE IF a = <<>> THEN TRUE
    ELSE IF BytesLess(Head(a), Head(b)) THEN TRUE
    ELSE IF BytesLess(Head(b), Head(a)) THEN FALSE
    ELSE ComponentsLess(Tail(a), Tail(b))

\* a.cmp(&b) == Ordering::Less on two paths
PathLess(a, b) == ComponentsLess(components(a), components(b))

\* slice::sort is a stable sort; here by insertion, an element going after
\* the elements it does not precede
RECURSIVE InsertPath(_, _)
InsertPath(x, s) ==
    IF s = <<>> THEN <<x>>
    ELSE IF PathLess(x, Head(s)) THEN <<x>> \o s
    ELSE <<Head(s)>> \o InsertPath(x, Tail(s))

\* paths.sort()
RECURSIVE SortPaths(_)
SortPaths(ps) ==
    IF ps = <<>> THEN <<>>
    ELSE InsertPath(ps[Len(ps)], SortPaths(SubSeq(ps, 1, Len(ps) - 1)))

RECURSIVE InsertResult(_, _)
InsertResult(x, s) ==
    IF s = <<>> THEN <<x>>
    ELSE IF PathLess(x[1], Head(s)[1]) THEN <<x>> \o s
    ELSE <<Head(s)>> \o InsertResult(x, Tail(s))

RECURSIVE SortResultsBy(_)
SortResultsBy(rs) ==
    IF rs = <<>> THEN <<>>
    ELSE InsertResult(rs[Len(rs)], SortResultsBy(SubSeq(rs, 1, Len(rs) - 1)))

\* the collection handed back as collected, the sort left out
SortResultsUnsorted(rs) == rs

\* final_results.sort_by(|a, b| a.0.cmp(&b.0))
SortResults(rs) == SortResultsBy(rs)

-----------------------------------------------------------------------------
(* The filesystem snapshot of one run: what each path holds.               *)

\* a file that cannot be opened or read
Unreadable == [readable |-> FALSE, bytes |-> <<>>]

OnDisk(b) == [readable |-> TRUE, bytes |-> b]

\* The files, by path.  "p/a.b" sorts after "p/a/b" as a path and before
\* it as a string.
\*   p/a/b  x=1\n                 text
\*   p/a.b  e-acute               text, one two-byte character
\*   p/c    a 00                  valid UTF-8, holds a null byte
\*   p/d    FF a b c              not UTF-8, no control bytes
\*   p/e    BOM z \r \n           text with a byte-order mark and CRLF
\*   p/f    space \n              whitespace only
\*   p/g                          unreadable
\*   p/h    00 FF                 not UTF-8, holds a null byte
\*   p/i    BOM                   a byte-order mark and nothing else
Files ==
    (<<112, 47, 97, 47, 98>> :> OnDisk(<<120, 61, 49, 10>>)) @@
    (<<112, 47, 97, 46, 98>> :> OnDisk(<<195, 169>>)) @@
    (<<112, 47, 99>>  :> OnDisk(<<97, 0>>)) @@
    (<<112, 47, 100>> :> OnDisk(<<255, 97, 98, 99>>)) @@
    (<<112, 47, 101>> :> OnDisk(<<239, 187, 191, 122, 13, 10>>)) @@
    (<<112, 47, 102>> :> OnDisk(<<32, 10>>)) @@
    (<<112, 47, 103>> :> Unreadable) @@
    (<<112, 47, 104>> :> OnDisk(<<0, 255>>)) @@
    (<<112, 47, 105>> :> OnDisk(<<239, 187, 191>>))

-----------------------------------------------------------------------------
(* is_likely_binary and process_single_file                                *)

SampleSize == 1024

is_likely_binary(bytes) ==
    LET sample_size == Min(Len(bytes), SampleSize)
        null_count == Cardinality({i \in 1..sample_size : bytes[i] = 0})
        non_printable_count ==
            Cardinality({i \in 1..sample_size :
                            bytes[i] < 32 /\ bytes[i] \notin {9, 10, 13}})
    IN  \* x / y > 0.3 in f32; 0/0 is NaN and compares false
        null_count > 0 \/ 10 * non_printable_count > 3 * sample_size

\* char::is_whitespace (the Unicode White_Space property)
is_whitespace(c) ==
    \/ (c >= 9 /\ c <= 13)
    \/ c \in {32, 133, 160, 5760, 8232, 8233, 8239, 8287, 12288}
    \/ (c >= 8192 /\ c <= 8202)

\* content.trim().is_empty()
trim_is_empty(s) == \A c \in Range(chars(s)) : is_whitespace(c)

\* U+FEFF in UTF-8
BOM == <<239, 187, 191>>

starts_with(s, prefix) ==
    Len(s) >= Len(prefix) /\ SubSeq(s, 1, Len(prefix)) = prefix

\* s.trim_start_matches('\u{FEFF}'): every leading occurrence goes
RECURSIVE trim_start_matches_bom(_)
trim_start_matches_bom(s) ==
    IF starts_with(s, BOM)
    THEN trim_start_matches_bom(SubSeq(s, Len(BOM) + 1, Len(s)))
    ELSE s

\* a variant that turns every '\r' into '\n', paired or not
replace_cr(s) == [i \in 1..Len(s) |-> IF s[i] = 13 THEN 10 ELSE s[i]]

\* s.replace("\r\n", "\n")
RECURSIVE replace_crlf(_)
replace_crlf(s) ==
    IF s = <<>> THEN <<>>
    ELSE IF starts_with(s, <<13, 10>>)
        THEN <<10>> \o replace_crlf(SubSeq(s, 3, Len(s)))
    ELSE <<Head(s)>> \o replace_crlf(Tail(s))

\* lines 816-819
Normalize(content) ==
    replace_crlf(IF starts_with(content, BOM)
                 THEN trim_start_matches_bom(content)
                 ELSE content)

LoadNone == [kind |-> "none", content |-> <<>>]

LoadErr(why) == [kind |-> why, content |-> <<>>]

LoadSome(content) == [kind |-> "some", content |-> content]

\* a variant that reports every decoding failure as an encoding error
process_single_file_NoBinaryCheck(file_path, out, excl_empty) ==
    LET f == Files[file_path]
    IN  IF out # <<>> /\ out[1] \in DOMAIN Files /\ out[1] = file_path
            THEN LoadNone
        ELSE IF f.readable /\ from_utf8_ok(f.bytes)
            THEN IF excl_empty /\ trim_is_empty(f.bytes)
                     THEN LoadNone
                 ELSE LoadSome(Normalize(f.bytes))
        ELSE IF f.readable
            THEN LoadErr("encoding")
        ELSE LoadErr("unreadable")

\* process_single_file: Ok(Some((path, content))), Ok(None), or Err(..).
\* Both paths of line 802 canonicalize when both files exist; a candidate
\* exists, and two candidates of the snapshot are the same file only when
\* they are the same path.
process_single_file(file_path, out, excl_empty) ==
    LET f == Files[file_path]
    IN  IF out # <<>> /\ out[1] \in DOMAIN Files /\ out[1] = file_path
            THEN LoadNone
        ELSE IF f.readable /\ from_utf8_ok(f.bytes)
            THEN IF excl_empty /\ trim_is_empty(f.bytes)
                     THEN LoadNone
                 ELSE LoadSome(Normalize(f.bytes))
        ELSE IF f.readable
            THEN IF is_likely_binary(f.bytes)
                     THEN LoadNone
                 ELSE LoadErr("encoding")
        ELSE LoadErr("unreadable")

-----------------------------------------------------------------------------
(* process_files_parallel.  Each candidate is one task of the par_iter; a  *)
(* task's accesses to the two shared atomics are separate steps, which     *)
(* tasks on different threads take in any order.  The atomics are taken    *)
(* sequentially consistent here; Ordering::Relaxed allows these            *)
(* interleavings and more (a load may also return an older value).         *)

Candidates == Range(file_paths)

WorkerFinal == {"skipped", "encoding", "unreadable", "rejected_size",
                "rejected_tokens", "admitted"}

\* the comparison written with >= in place of >
WouldExceedOrMeet(current, amount, max) == current + amount >= max

\* current + amount > max (lines 744 and 756)
WouldExceed(current, amount, max) == current + amount > max

\* lines 735-741: process_single_file and the arms of the match on its result
Worker_Load(p) ==
    /\ ext_pc = "run" /\ ~dry_run
    /\ wpc[p] = "start"
    /\ LET r == process_single_file(p, output_file, exclude_empty)
       IN  /\ wpc' = [wpc EXCEPT ![p] = IF r.kind = "some" THEN "check_size"
                                        ELSE IF r.kind = "none" THEN "skipped"
                                        ELSE r.kind]
           /\ wcontent' = [wcontent EXCEPT ![p] = r.content]
    /\ UNCHANGED <<cfgVars, ext_pc, total_size, total_tokens, results,
                   final_results, dryVars, tokVars, walkVars, outVars, renderVars>>

\* lines 743-752: total_size.load and the byte check
Worker_CheckSize(p) ==
    /\ ext_pc = "run" /\ ~dry_run
    /\ wpc[p] = "check_size"
    /\ LET content_size == Len(wcontent[p])
           current_size == total_size
       IN  wpc' = [wpc EXCEPT ![p] =
                      IF WouldExceed(current_size, content_size, max_size_bytes)
                          THEN "rejected_size"
                      ELSE IF max_tokens # <<>> THEN "check_tokens"
                      ELSE "add_size"]
    /\ UNCHANGED <<cfgVars, ext_pc, wcontent, total_size, total_tokens, results,
                   final_results, dryVars, tokVars, walkVars, outVars, renderVars>>

\* the same step, had line 767 come before the token check
Worker_CheckTokens_AfterSizeCommit(p) ==
    /\ ext_pc = "run" /\ ~dry_run
    /\ wpc[p] = "check_tokens"
    /\ LET content_tokens == estimate_tokens(wcontent[p])
           current_tokens == total_tokens
           reject == WouldExceed(current_tokens, content_tokens, max_tokens[1])
       IN  /\ wpc' = [wpc EXCEPT ![p] =
                         IF reject THEN "rejected_tokens" ELSE "add_size"]
           /\ total_size' = IF reject THEN total_size + Len(wcontent[p])
                            ELSE total_size
    /\ UNCHANGED <<cfgVars, ext_pc, wcontent, total_tokens, results,
                   final_results, dryVars, tokVars, walkVars, outVars, renderVars>>

\* lines 754-765: total_tokens.load and the token check
Worker_CheckTokens(p) ==
    /\ ext_pc = "run" /\ ~dry_run
    /\ wpc[p] = "check_tokens"
    /\ LET content_tokens == estimate_tokens(wcontent[p])
           current_tokens == total_tokens
       IN  wpc' = [wpc EXCEPT ![p] =
                      IF WouldExceed(current_tokens, content_tokens, max_tokens[1])
                          THEN "rejected_tokens"
                      ELSE "add_size"]
    /\ UNCHANGED <<cfgVars, ext_pc, wcontent, total_size, total_tokens, results,
                   final_results, dryVars, tokVars, walkVars, outVars, renderVars>>

\* line 767: total_size.fetch_add
Worker_AddSize(p) ==
    /\ ext_pc = "run" /\ ~dry_run
    /\ wpc[p] = "add_size"
    /\ total_size' = total_size + Len(wcontent[p])
    /\ wpc' = [wpc EXCEPT ![p] = "add_tokens"]
    /\ UNCHANGED <<cfgVars, ext_pc, wcontent, total_tokens, results,
                   final_results, dryVars, tokVars, walkVars, outVars, renderVars>>

\* a variant that adds the byte length to total_tokens as well
Worker_AddTokens_AddsBytes(p) ==
    /\ ext_pc = "run" /\ ~dry_run
    /\ wpc[p] = "add_tokens"
    /\ total_tokens' = total_tokens + Len(wcontent[p])
    /\ results' = Append(results, <<p, wcontent[p]>>)
    /\ wpc' = [wpc EXCEPT ![p] = "admitted"]
    /\ UNCHANGED <<cfgVars, ext_pc, wcontent, total_size, final_results,
                   dryVars, tokVars, walkVars, outVars, renderVars>>

\* lines 768-779: total_tokens.fetch_add, and Some((path, content)) returned
\* to the collection
Worker_AddTokens(p) ==
    /\ ext_pc = "run" /\ ~dry_run
    /\ wpc[p] = "add_tokens"
    /\ total_tokens' = total_tokens + estimate_tokens(wcontent[p])
    /\ results' = Append(results, <<p, wcontent[p]>>)
    /\ wpc' = [wpc EXCEPT ![p] = "admitted"]
    /\ UNCHANGED <<cfgVars, ext_pc, wcontent, total_size, final_results,
                   dryVars, tokVars, walkVars, outVars, renderVars>>

\* lines 713-717
ReturnEmpty ==
    /\ ext_pc = "run" /\ ~dry_run
    /\ Len(file_paths) = 0
    /\ final_results' = <<>>
    /\ ext_pc' = "done"
    /\ UNCHANGED <<cfgVars, wpc, wcontent, total_size, total_tokens, results,
                   dryVars, tokVars, walkVars, outVars, renderVars>>

\* lines 790-797: every task has returned; sort and return
Collect ==
    /\ ext_pc = "run" /\ ~dry_run
    /\ Len(file_paths) > 0
    /\ \A p \in Candidates : wpc[p] \in WorkerFinal
    /\ final_results' = SortResults(results)
    /\ ext_pc' = "done"
    /\ UNCHANGED <<cfgVars, wpc, wcontent, total_size, total_tokens, results,
                   dryVars, tokVars, walkVars, outVars, renderVars>>

-----------------------------------------------------------------------------
(* The dry-run loop of main (lines 983-1000).                              *)

\* a variant that also rejects a file that exactly fills a maximum
DryBody_RejectsExactFit(acc, file_path, out, excl_empty, max_bytes, max_tok) ==
    LET r == process_single_file(file_path, out, excl_empty)
        content_size == Len(r.content)
        content_tokens == estimate_tokens(r.content)
    IN  IF r.kind # "some" THEN acc
        ELSE IF acc.total_size_bytes + content_size >= max_bytes THEN acc
        ELSE IF max_tok # <<>> /\ acc.total_tokens + content_tokens >= max_tok[1]
            THEN acc
        ELSE [files_data |-> Append(acc.files_data, <<file_path, r.content>>),
              total_size_bytes |-> acc.total_size_bytes + content_size,
              total_tokens |-> acc.total_tokens + content_tokens]

\* one iteration: the loop's locals before, the candidate, the locals after
DryBody(acc, file_path, out, excl_empty, max_bytes, max_tok) ==
    LET r == process_single_file(file_path, out, excl_empty)
        content_size == Len(r.content)
        content_tokens == estimate_tokens(r.content)
    IN  IF r.kind # "some" THEN acc
        ELSE IF acc.total_size_bytes + content_size > max_bytes THEN acc
        ELSE IF max_tok # <<>> /\ acc.total_tokens + content_tokens > max_tok[1]
            THEN acc
        ELSE [files_data |-> Append(acc.files_data, <<file_path, r.content>>),
              total_size_bytes |-> acc.total_size_bytes + content_size,
              total_tokens |-> acc.total_tokens + content_tokens]

DryRunStep ==
    /\ ext_pc = "run" /\ dry_run
    /\ dry_i <= Len(file_paths)
    /\ LET acc == DryBody([files_data |-> files_data,
                           total_size_bytes |-> total_size_bytes,
                           total_tokens |-> dry_total_tokens],
                          file_paths[dry_i], output_file, exclude_empty,
                          max_size_bytes, max_tokens)
       IN  /\ files_data' = acc.files_data
           /\ total_size_bytes' = acc.total_size_bytes
           /\ dry_total_tokens' = acc.total_tokens
    /\ dry_i' = dry_i + 1
    /\ UNCHANGED <<cfgVars, ext_pc, parVars, tokVars, walkVars, outVars, renderVars>>

DryRunDone ==
    /\ ext_pc = "run" /\ dry_run
    /\ dry_i > Len(file_paths)
    /\ ext_pc' = "done"
    /\ UNCHANGED <<cfgVars, parVars, dryVars, tokVars, walkVars, outVars, renderVars>>

\* the whole loop over a candidate list
RECURSIVE DryRunAll(_, _, _, _, _)
DryRunAll(paths, out, excl_empty, max_bytes, max_tok) ==
    IF paths = <<>>
    THEN [files_data |-> <<>>, total_size_bytes |-> 0, total_tokens |-> 0]
    ELSE DryBody(DryRunAll(SubSeq(paths, 1, Len(paths) - 1), out, excl_empty,
                           max_bytes, max_tok),
                 paths[Len(paths)], out, excl_empty, max_bytes, max_tok)

-----------------------------------------------------------------------------
(* Specification Spec: one extraction run over a candidate list, as main   *)
(* hands it on (sorted, no duplicates), in either mode (cli.dry_run).      *)

\* the elements of a set of paths, ascending
RECURSIVE SortedSeqOf(_)
SortedSeqOf(S) ==
    IF S = {} THEN <<>>
    ELSE LET m == CHOOSE x \in S : \A y \in S \ {x} : PathLess(x, y)
         IN  <<m>> \o SortedSeqOf(S \ {m})

CandidateLists ==
    {SortedSeqOf(S) : S \in {T \in SUBSET (DOMAIN Files) : Cardinality(T) <= MaxFiles}}

InitExtract ==
    /\ file_paths \in CandidateLists
    /\ max_size_bytes \in {3, MaxBudgetBytes}
    /\ max_tokens \in {<<>>, <<1>>, <<MaxBudgetTokens>>}
    /\ exclude_empty \in BOOLEAN
    /\ output_file \in {<<>>, <<(<<112, 47, 101>>)>>}
    /\ dry_run \in BOOLEAN
    /\ ext_pc = "run"
    /\ wpc = [p \in Range(file_paths) |-> "start"]
    /\ wcontent = [p \in Range(file_paths) |-> <<>>]
    /\ total_size = 0
    /\ total_tokens = 0
    /\ results = <<>>
    /\ final_results = <<>>
    /\ dry_i = 1
    /\ files_data = <<>>
    /\ total_size_bytes = 0
    /\ dry_total_tokens = 0

Init == InitExtract /\ IdleTokens /\ IdleWalk /\ IdleOut /\ IdleRender

Next ==
    \/ \E p \in Candidates : Worker_Load(p)
    \/ \E p \in Candidates : Worker_CheckSize(p)
    \/ \E p \in Candidates : Worker_CheckTokens(p)
    \/ \E p \in Candidates : Worker_AddSize(p)
    \/ \E p \in Candidates : Worker_AddTokens(p)
    \/ ReturnEmpty
    \/ Collect
    \/ DryRunStep
    \/ DryRunDone

Spec == Init /\ [][Next]_vars

-----------------------------------------------------------------------------
(* Claims about extraction, checked under Spec.                            *)

\* the (path, content) pairs' byte lengths and token estimates
Sizes(rs) == [i \in 1..Len(rs) |-> Len(rs[i][2])]

Tokens(rs) == [i \in 1..Len(rs) |-> estimate_tokens(rs[i][2])]

PathsOf(rs) == [i \in 1..Len(rs) |-> rs[i][1]]

\* what every candidate that loads would cost, were all of them admitted
Loadable ==
    {p \in Candidates :
        process_single_file(p, output_file, exclude_empty).kind = "some"}

LoadableContents ==
    LET ps == SortedSeqOf(Loadable)
    IN  [i \in 1..Len(ps) |->
            process_single_file(ps[i], output_file, exclude_empty).content]

NoBudgetExceeded ==
    /\ SumSeq([i \in 1..Len(LoadableContents) |-> Len(LoadableContents[i])])
           <= max_size_bytes
    /\ max_tokens # <<>> =>
           SumSeq([i \in 1..Len(LoadableContents) |->
                      estimate_tokens(LoadableContents[i])]) <= max_tokens[1]

ParallelDone == ext_pc = "done" /\ ~dry_run

\* C1: in process_files_parallel, under every interleaving of the tasks, the
\* byte lengths of the admitted files sum to at most max_size_bytes, and the
\* shared total_size never exceeds max_size_bytes.
C1_ByteBudgetHolds ==
    ~dry_run =>
        /\ total_size <= max_size_bytes
        /\ SumSeq(Sizes(results)) <= max_size_bytes

\* C2: with a token maximum configured, under every interleaving the token
\* estimates of the admitted files sum to at most max_tokens; with none
\* configured, no file is rejected for its token cost.
C2_TokenBudgetHolds ==
    ~dry_run =>
        /\ max_tokens # <<>> => SumSeq(Tokens(results)) <= max_tokens[1]
        /\ max_tokens = <<>> => \A p \in Candidates : wpc[p] # "rejected_tokens"

\* C3: a task that rejects its file (for bytes or for tokens) leaves both
\* counters as they were, and a task that admits its file adds exactly the
\* file's byte length to total_size and exactly its token estimate to
\* total_tokens, each in one step that leaves the other counter alone.
C3_RejectionFrame ==
    [][\A p \in Candidates :
          /\ (wpc[p] # wpc'[p] /\ wpc'[p] \in {"rejected_size", "rejected_tokens"})
                => (total_size' = total_size /\ total_tokens' = total_tokens)
          /\ (wpc[p] = "add_size" /\ wpc'[p] # "add_size")
                => /\ wpc'[p] = "add_tokens"
                   /\ total_size' = total_size + Len(wcontent[p])
                   /\ total_tokens' = total_tokens
          /\ (wpc[p] = "add_tokens" /\ wpc'[p] # "add_tokens")
                => /\ wpc'[p] = "admitted"
                   /\ total_tokens' = total_tokens + estimate_tokens(wcontent[p])
                   /\ total_size' = total_size
          /\ (wpc'[p] = "admitted" => wpc[p] \in {"add_tokens", "admitted"})
      ]_vars

\* one file rejected for tokens and one for bytes, while another is admitted
C3_Witness ==
    /\ ParallelDone
    /\ \E p, q, r \in Candidates :
          /\ wpc[p] = "rejected_tokens"
          /\ wpc[q] = "rejected_size"
          /\ wpc[r] = "admitted"

C5_Determinism ==
    (ext_pc = "done" /\ NoBudgetExceeded) =>
        LET sequential == DryRunAll(file_paths, output_file, exclude_empty,
                                    max_size_bytes, max_tokens).files_data
        IN  /\ ~dry_run => final_results = sequential
            /\ dry_run => files_data = sequential
            /\ PathsOf(sequential) = SortedSeqOf(Loadable)

\* three files that fill the byte budget exactly, admitted out of order
C5_Witness ==
    /\ ParallelDone
    /\ NoBudgetExceeded
    /\ Len(final_results) = 3
    /\ SumSeq(Sizes(final_results)) = max_size_bytes
    /\ results # final_results

\* C9: no admitted file has a null byte among the first 1024 bytes it holds
\* on disk, whether or not its bytes are valid UTF-8.
C9_BinaryExcluded ==
    \A r \in Range(results) \cup Range(final_results) \cup Range(files_data) :
        LET b == Files[r[1]].bytes
        IN  \A i \in 1..Min(Len(b), SampleSize) : b[i] # 0

\* C12: with cli.exclude_empty set, no admitted file has content that is
\* empty after trimming whitespace, in either mode; a file that holds only
\* a byte-order marker is among those skipped.
C12_NoEmptyAdmitted ==
    exclude_empty =>
        /\ \A i \in 1..Len(results) : ~trim_is_empty(results[i][2])
        /\ \A i \in 1..Len(files_data) : ~trim_is_empty(files_data[i][2])

\* rayon runs every task of the par_iter to its end and collect() then
\* returns; the for loop of the dry run goes on to its end.  No step that
\* can be taken is put off forever: weak fairness of Next.  A step of Next
\* can be taken exactly while ext_pc = "run" (every action has that guard,
\* and while it holds a task has its next step to take, or the collection
\* or the end of the loop does), so WF_vars(Next), which is
\* []<>(~ENABLED <<Next>>_vars) \/ []<><<Next>>_vars, is written here with
\* that condition in place of ENABLED.
FairSpec == Spec /\ ([]<>(ext_pc # "run") \/ []<><<Next>>_vars)

\* read_to_string fails to decode the file at p
DecodeFails(p) == Files[p].readable /\ ~from_utf8_ok(Files[p].bytes)

DryRunComplete == ext_pc = "done" /\ dry_run

\* the positions in file_paths of the candidates before position i that
\* the dry run admitted
AdmittedBefore(i) ==
    {j \in 1..(i - 1) : file_paths[j] \in Range(PathsOf(files_data))}

\* what the candidate at position i loads as
LoadedAt(i) == process_single_file(file_paths[i], output_file, exclude_empty)

\* the sum of f over a finite set of positions
RECURSIVE SumOver(_, _)
SumOver(S, f) ==
    IF S = {} THEN 0
    ELSE LET x == CHOOSE y \in S : TRUE IN f[x] + SumOver(S \ {x}, f)

\* the candidate at position i loads, and its bytes and tokens added to
\* those of the candidates admitted before it stay within both maxima
FitsAfterEarlier(i) ==
    LET size == [j \in 1..Len(file_paths) |-> Len(LoadedAt(j).content)]
        toks == [j \in 1..Len(file_paths) |-> estimate_tokens(LoadedAt(j).content)]
    IN  /\ LoadedAt(i).kind = "some"
        /\ SumOver(AdmittedBefore(i), size) + size[i] <= max_size_bytes
        /\ max_tokens # <<>> =>
               SumOver(AdmittedBefore(i), toks) + toks[i] <= max_tokens[1]

\* C16: the dry-run loop offers the candidates to the budget in sorted path
\* order: a candidate is admitted exactly when it loads and its bytes and
\* tokens, added to the totals of the candidates admitted before it, keep
\* both within their maxima, whatever was rejected before it; the admitted
\* files come in candidate order with their loaded content, and their
\* totals are within both maxima.
C16_SequentialAdmission ==
    DryRunComplete =>
        /\ \A i \in 1..Len(file_paths) :
              (file_paths[i] \in Range(PathsOf(files_data))) <=> FitsAfterEarlier(i)
        /\ \A k \in 1..Len(files_data) :
              \E i \in 1..Len(file_paths) :
                  /\ files_data[k] = <<file_paths[i], LoadedAt(i).content>>
                  /\ Cardinality(AdmittedBefore(i)) = k - 1
        /\ SumSeq(Sizes(files_data)) <= max_size_bytes
        /\ max_tokens # <<>> => SumSeq(Tokens(files_data)) <= max_tokens[1]

\* a dry run that rejected a file that loads and admitted a later candidate
C16_Witness ==
    /\ DryRunComplete
    /\ \E i, j \in 1..Len(file_paths) :
          /\ i < j
          /\ LoadedAt(i).kind = "some"
          /\ file_paths[i] \notin Range(PathsOf(files_data))
          /\ file_paths[j] \in Range(PathsOf(files_data))

\* C18: when process_files_parallel has returned, under every interleaving,
\* total_size is the sum of the byte lengths of the admitted files and
\* total_tokens the sum of their token estimates: nothing was added for an
\* excluded file, and every admitted file was counted.
C18_CountersExact ==
    ParallelDone =>
        /\ total_size = SumSeq(Sizes(final_results))
        /\ total_tokens = SumSeq(Tokens(final_results))
        /\ \A p \in Candidates :
              (wpc[p] = "admitted") <=> (p \in Range(PathsOf(final_results)))

\* a run that is over with a file rejected for its budget cost and two
\* files admitted
C18_Witness ==
    /\ ParallelDone
    /\ \E p \in Candidates : wpc[p] \in {"rejected_size", "rejected_tokens"}
    /\ Len(final_results) = 2
    /\ total_size > 0
    /\ total_tokens > 0

-----------------------------------------------------------------------------
(* should_auto_exclude and should_unignore_file                            *)

\* str::to_lowercase on ASCII
to_lowercase(s) ==
    [i \in 1..Len(s) |-> IF s[i] >= 65 /\ s[i] <= 90 THEN s[i] + 32 ELSE s[i]]

ends_with(s, suffix) ==
    Len(s) >= Len(suffix)
    /\ SubSeq(s, Len(s) - Len(suffix) + 1, Len(s)) = suffix

\* str::contains(&str)
contains(s, sub) ==
    \E i \in 1..(Len(s) - Len(sub) + 1) : SubSeq(s, i, i + Len(sub) - 1) = sub

common_excludes == <<
       <<110, 111, 100, 101, 95, 109, 111, 100, 117, 108, 101, 115>>,  \* node_modules
       <<116, 97, 114, 103, 101, 116>>,  \* target
       <<46, 103, 105, 116>>,  \* .git
       <<46, 115, 118, 110>>,  \* .svn
       <<46, 104, 103>>,  \* .hg
       <<100, 105, 115, 116>>,  \* dist
       <<98, 117, 105, 108, 100>>,  \* build
       <<95, 95, 112, 121, 99, 97, 99, 104, 101, 95, 95>>,  \* __pycache__
       <<46, 112, 121, 116, 101, 115, 116, 95, 99, 97, 99, 104, 101>>,  \* .pytest_cache
       <<99, 111, 118, 101, 114, 97, 103, 101>>,  \* coverage
       <<46, 99, 111, 118, 101, 114, 97, 103, 101>>,  \* .coverage
       <<46, 110, 121, 99, 95, 111, 117, 116, 112, 117, 116>>,  \* .nyc_output
       <<118, 101, 110, 100, 111, 114>>,  \* vendor
       <<100, 101, 112, 115>>,  \* deps
       <<46, 103, 114, 97, 100, 108, 101>>,  \* .gradle
       <<46, 109, 50>>,  \* .m2
       <<46, 105, 100, 101, 97>>,  \* .idea
       <<46, 118, 115, 99, 111, 100, 101>>,  \* .vscode
       <<46, 118, 115>>,  \* .vs
       <<42, 46, 108, 111, 103>>,  \* *.log
       <<42, 46, 116, 109, 112>>,  \* *.tmp
       <<42, 46, 99, 97, 99, 104, 101>>,  \* *.cache
       <<112, 97, 99, 107, 97, 103, 101, 45, 108, 111, 99, 107, 46, 106, 115, 111, 110>>,  \* package-lock.json
       <<121, 97, 114, 110, 46, 108, 111, 99, 107>>,  \* yarn.lock
       <<67, 97, 114, 103, 111, 46, 108, 111, 99, 107>>,  \* Cargo.lock
       <<112, 111, 101, 116, 114, 121, 46, 108, 111, 99, 107>>,  \* poetry.lock
       <<80, 105, 112, 102, 105, 108, 101, 46, 108, 111, 99, 107>>,  \* Pipfile.lock
       <<46, 68, 83, 95, 83, 116, 111, 114, 101>>,  \* .DS_Store
       <<84, 104, 117, 109, 98, 115, 46, 100, 98>>,  \* Thumbs.db
       <<42, 46, 115, 119, 112>>,  \* *.swp
       <<42, 46, 115, 119, 111>>  \* *.swo
    >>

\* exclude.trim_start_matches("*.")
RECURSIVE trim_start_star_dot(_)
trim_start_star_dot(s) ==
    IF starts_with(s, <<42, 46>>) THEN trim_start_star_dot(SubSeq(s, 3, Len(s)))
    ELSE s

should_auto_exclude(path) ==
    LET path_str == to_lowercase(path)
        name == to_lowercase(file_name(path))
    IN  \E k \in 1..Len(common_excludes) :
            LET exclude == common_excludes[k]
            IN  IF 42 \in Range(exclude)
                THEN /\ starts_with(exclude, <<42, 46>>)
                     /\ ends_with(path_str, trim_start_star_dot(exclude))
                ELSE contains(path_str, exclude) \/ contains(name, exclude)

\* glob::Pattern::matches under the default MatchOptions, for patterns made
\* of literal characters, '?' and '*': '*' matches any run of characters,
\* separators included (require_literal_separator is false)
RECURSIVE PatternMatches(_, _)
PatternMatches(pattern, str) ==
    IF pattern = <<>> THEN str = <<>>
    ELSE IF Head(pattern) = 42
        THEN \/ PatternMatches(Tail(pattern), str)
             \/ (str # <<>> /\ PatternMatches(pattern, Tail(str)))
    ELSE IF Head(pattern) = 63
        THEN str # <<>> /\ PatternMatches(Tail(pattern), Tail(str))
    ELSE /\ str # <<>>
         /\ Head(str) = Head(pattern)
         /\ PatternMatches(Tail(pattern), Tail(str))

\* path_str.replace('\\', "/")
replace_backslash(s) == [i \in 1..Len(s) |-> IF s[i] = 92 THEN 47 ELSE s[i]]

\* the same function, without the test of the bare file name
should_unignore_file_NoFileName(path, patterns) ==
    \E k \in 1..Len(patterns) :
        \/ PatternMatches(patterns[k], path)
        \/ PatternMatches(patterns[k], replace_backslash(path))

should_unignore_file(path, patterns) ==
    \E k \in 1..Len(patterns) :
        \/ PatternMatches(patterns[k], path)
        \/ PatternMatches(patterns[k], file_name(path))
        \/ PatternMatches(patterns[k], replace_backslash(path))

-----------------------------------------------------------------------------
(* Path resolution: the block of main that builds all_file_paths.          *)
(*                                                                         *)
(* The directory tree is what a WalkBuilder finds below a root once depth  *)
(* and type filters are applied; `ignored` marks an entry that a           *)
(* .gitignore rule excludes, which the walker leaves out exactly when      *)
(* git_ignore is on.  A walker yields its entries in no order the program  *)
(* relies on, and yields Err for an entry it cannot read.                  *)

Entry(path, kind, ignored) == [path |-> path, kind |-> kind, ignored |-> ignored]

\* p    p/s.rs    p/b.log (ignored)    p/dist    p/x (unreadable)
\* p/t\u.md (ignored)    p/s    p/s/k.log (ignored)    p/s/n.rs
Tree == {
    Entry(<<112>>, "dir", FALSE),
    Entry(<<112, 47, 115, 46, 114, 115>>, "file", FALSE),
    Entry(<<112, 47, 98, 46, 108, 111, 103>>, "file", TRUE),
    Entry(<<112, 47, 100, 105, 115, 116>>, "file", FALSE),
    Entry(<<112, 47, 120>>, "err", FALSE),
    Entry(<<112, 47, 116, 92, 117, 46, 109, 100>>, "file", TRUE),
    Entry(<<112, 47, 115>>, "dir", FALSE),
    Entry(<<112, 47, 115, 47, 107, 46, 108, 111, 103>>, "file", TRUE),
    Entry(<<112, 47, 115, 47, 110, 46, 114, 115>>, "file", FALSE) }

\* p    p/s
RootChoices == {<<112>>, <<112, 47, 115>>}

\* *.log    k.log    p/t/u.md    p/?.log and *.md
PatternChoices == {
    <<>>,
    << <<42, 46, 108, 111, 103>> >>,
    << <<107, 46, 108, 111, 103>> >>,
    << <<112, 47, 116, 47, 117, 46, 109, 100>> >>,
    << <<112, 47, 63, 46, 108, 111, 103>>, <<42, 46, 109, 100>> >> }

UnderRoot(e, root) == e.path = root \/ starts_with(e.path, root \o <<47>>)

\* what walker.build() yields for a root (lines 927-933, 953-959)
WalkEntries(root, git_ignore) ==
    {e \in Tree : UnderRoot(e, root) /\ (git_ignore => ~e.ignored)}

\* the step after a walk of root_i has ended, and what it starts
AfterPrimary ==
    IF unignore_patterns # <<>>
    THEN /\ walk_pc' = "override"
         /\ pending' = WalkEntries(cli_paths[root_i], FALSE)
         /\ root_i' = root_i
    ELSE IF root_i < Len(cli_paths)
    THEN /\ walk_pc' = "primary"
         /\ pending' = WalkEntries(cli_paths[root_i + 1], use_gitignore)
         /\ root_i' = root_i + 1
    ELSE /\ walk_pc' = "collect"
         /\ pending' = {}
         /\ root_i' = root_i

\* a variant of the primary walk without the auto-exclude test
PrimaryEntry_NoAutoExclude(e) ==
    /\ walk_pc = "primary"
    /\ e \in pending
    /\ pending' = pending \ {e}
    /\ found_files' =
          IF e.kind = "file" THEN found_files \cup {e.path} ELSE found_files
    /\ UNCHANGED <<walkCfgVars, root_i, walk_pc, all_file_paths, tokVars, extVars, outVars, renderVars>>

\* lines 933-950: one entry of the primary walk
PrimaryEntry(e) ==
    /\ walk_pc = "primary"
    /\ e \in pending
    /\ pending' = pending \ {e}
    /\ found_files' =
          IF e.kind = "file" /\ ~(auto_exclude_common /\ should_auto_exclude(e.path))
          THEN found_files \cup {e.path}
          ELSE found_files
    /\ UNCHANGED <<walkCfgVars, root_i, walk_pc, all_file_paths, tokVars, extVars, outVars, renderVars>>

\* line 952: the primary walk of this root is over
PrimaryEnd ==
    /\ walk_pc = "primary"
    /\ pending = {}
    /\ AfterPrimary
    /\ UNCHANGED <<walkCfgVars, found_files, all_file_paths, tokVars, extVars, outVars, renderVars>>

\* lines 959-974: one entry of the walk with git_ignore(false)
OverrideEntry(e) ==
    /\ walk_pc = "override"
    /\ e \in pending
    /\ pending' = pending \ {e}
    /\ found_files' =
          IF /\ e.kind = "file"
             /\ e.path \notin found_files
             /\ should_unignore_file(e.path, unignore_patterns)
          THEN found_files \cup {e.path}
          ELSE found_files
    /\ UNCHANGED <<walkCfgVars, root_i, walk_pc, all_file_paths, tokVars, extVars, outVars, renderVars>>

\* lines 975-976: on to the next root, or out of the loop
OverrideEnd ==
    /\ walk_pc = "override"
    /\ pending = {}
    /\ IF root_i < Len(cli_paths)
       THEN /\ walk_pc' = "primary"
            /\ pending' = WalkEntries(cli_paths[root_i + 1], use_gitignore)
            /\ root_i' = root_i + 1
       ELSE /\ walk_pc' = "collect"
            /\ pending' = {}
            /\ root_i' = root_i
    /\ UNCHANGED <<walkCfgVars, found_files, all_file_paths, tokVars, extVars, outVars, renderVars>>

\* the orders HashSet::into_iter can yield the elements of S in
Orderings(S) ==
    {o \in [1..Cardinality(S) -> S] : \A i, j \in 1..Cardinality(S) : i # j => o[i] # o[j]}

\* the Vec handed on as the set yielded it, the sort left out
SortCandidatesUnsorted(order) == order

\* line 979
SortCandidates(order) == SortPaths(order)

\* lines 978-980
CollectPaths ==
    /\ walk_pc = "collect"
    /\ \E order \in Orderings(found_files) :
          all_file_paths' = SortCandidates(order)
    /\ walk_pc' = "done"
    /\ UNCHANGED <<walkCfgVars, root_i, pending, found_files, tokVars, extVars, outVars, renderVars>>

InitWalk ==
    /\ cli_paths \in {r \in SeqsUpTo(RootChoices, MaxRoots) : Len(r) >= 1}
    /\ use_gitignore \in BOOLEAN
    /\ auto_exclude_common \in BOOLEAN
    /\ unignore_patterns \in PatternChoices
    /\ root_i = 1
    /\ walk_pc = "primary"
    /\ pending = WalkEntries(cli_paths[1], use_gitignore)
    /\ found_files = {}
    /\ all_file_paths = <<>>
    /\ IdleTokens
    /\ IdleExtract
    /\ IdleOut
    /\ IdleRender

NextWalk ==
    \/ \E e \in Tree : PrimaryEntry(e)
    \/ PrimaryEnd
    \/ \E e \in Tree : OverrideEntry(e)
    \/ OverrideEnd
    \/ CollectPaths

SpecWalk == InitWalk /\ [][NextWalk]_vars

-----------------------------------------------------------------------------
(* Claims about path resolution, checked under SpecWalk.                   *)

WalkDone == walk_pc = "done"

Roots == Range(cli_paths)

\* the files the primary walks accept, over all roots
PrimaryResult ==
    {e.path : e \in {x \in Tree :
        /\ x.kind = "file"
        /\ \E r \in Roots : x \in WalkEntries(r, use_gitignore)
        /\ ~(auto_exclude_common /\ should_auto_exclude(x.path))}}

\* the files the override walks accept, over all roots
OverrideResult ==
    {e.path : e \in {x \in Tree :
        /\ x.kind = "file"
        /\ unignore_patterns # <<>>
        /\ \E r \in Roots : x \in WalkEntries(r, FALSE)
        /\ \E k \in 1..Len(unignore_patterns) :
              \/ PatternMatches(unignore_patterns[k], x.path)
              \/ PatternMatches(unignore_patterns[k], file_name(x.path))
              \/ PatternMatches(unignore_patterns[k], replace_backslash(x.path))}}

C7_WitnessNoPatterns ==
    /\ WalkDone
    /\ use_gitignore
    /\ unignore_patterns = <<>>
    /\ <<112, 47, 98, 46, 108, 111, 103>> \notin Range(all_file_paths)
    /\ <<112, 47, 115, 46, 114, 115>> \in Range(all_file_paths)

\* the files main has accepted so far, and the list it goes on with
Accepted == found_files \cup Range(all_file_paths)

\* C19 as claimed: with cli.auto_exclude_common set, no path for which
\* should_auto_exclude holds is ever accepted, override patterns or not.
C19_NoAutoExcluded ==
    auto_exclude_common => \A p \in Accepted : ~should_auto_exclude(p)

\* C19: with cli.auto_exclude_common set, a path for which
\* should_auto_exclude holds is accepted only by the override walk, that
\* is, only when override patterns are configured and the path matches one
\* of them; the primary walk never accepts it.
C19_AutoExcludedOnlyByOverride ==
    auto_exclude_common =>
        \A p \in Accepted :
            should_auto_exclude(p) =>
                /\ unignore_patterns # <<>>
                /\ should_unignore_file(p, unignore_patterns)

\* path resolution is over with auto-exclude on: p/b.log, auto-excluded and
\* matching an override pattern, is a candidate; p/dist, auto-excluded and
\* matching none, is not
C19_Witness ==
    /\ WalkDone
    /\ auto_exclude_common
    /\ <<112>> \in Roots
    /\ should_auto_exclude(<<112, 47, 98, 46, 108, 111, 103>>)
    /\ <<112, 47, 98, 46, 108, 111, 103>> \in Range(all_file_paths)
    /\ should_auto_exclude(<<112, 47, 100, 105, 115, 116>>)
    /\ <<112, 47, 100, 105, 115, 116>> \notin Range(all_file_paths)

-----------------------------------------------------------------------------
(* compress_content                                                        *)

\* str::lines(): the pieces between '\n's, a "\r\n" counting as the line
\* ending; what follows the last '\n' is a line only when it is not empty
RECURSIVE lines(_)
lines(s) ==
    IF s = <<>> THEN <<>>
    ELSE IF 10 \notin Range(s) THEN <<s>>
    ELSE LET k    == CHOOSE i \in 1..Len(s) :
                         s[i] = 10 /\ \A j \in 1..(i - 1) : s[j] # 10
             upto == SubSeq(s, 1, k - 1)
             line == IF ends_with(upto, <<13>>)
                     THEN SubSeq(upto, 1, Len(upto) - 1)
                     ELSE upto
         IN  <<line>> \o lines(SubSeq(s, k + 1, Len(s)))

\* line.chars().position(|c| c != ' ' && c != '\t').unwrap_or(line.len()):
\* the index, counted in chars from 0, of the first char that is neither
RECURSIVE position_not_blank(_, _, _)
position_not_blank(cs, i, line_len) ==
    IF i > Len(cs) THEN line_len
    ELSE IF cs[i] # 32 /\ cs[i] # 9 THEN i - 1
    ELSE position_not_blank(cs, i + 1, line_len)

\* lines 127-156: the loop over content_part.chars(); `pushed` is what the
\* loop has pushed onto result so far, st holds prev_space, in_string,
\* string_char and prev_char
RECURSIVE CompressPart(_, _, _, _)
CompressPart(cs, i, st, pushed) ==
    IF i > Len(cs) THEN pushed
    ELSE LET ch == cs[i]
         IN  IF ch \in {34, 39} /\ st.prev_char # 92
                 THEN CompressPart(cs, i + 1,
                          [prev_space  |-> FALSE,
                           in_string   |-> IF ~st.in_string THEN TRUE
                                           ELSE IF ch = st.string_char THEN FALSE
                                           ELSE st.in_string,
                           string_char |-> IF ~st.in_string THEN ch
                                           ELSE st.string_char,
                           prev_char   |-> ch],
                          Append(pushed, ch))
             ELSE IF ch \in {32, 9} /\ ~st.in_string
                 THEN CompressPart(cs, i + 1,
                          [st EXCEPT !.prev_space = TRUE, !.prev_char = ch],
                          IF ~st.prev_space THEN Append(pushed, 32) ELSE pushed)
             ELSE CompressPart(cs, i + 1,
                          [st EXCEPT !.prev_space = FALSE, !.prev_char = ch],
                          Append(pushed, ch))

\* lines 108-159: what one line adds to result
CompressLine(line) ==
    IF trim_is_empty(line) THEN <<10>>
    ELSE LET leading_whitespace_end == position_not_blank(chars(line), 1, Len(line))
             indentation  == SubSeq(line, 1, leading_whitespace_end)
             content_part == SubSeq(line, leading_whitespace_end + 1, Len(line))
         IN  indentation
             \o StringOf(CompressPart(chars(content_part), 1,
                             [prev_space |-> FALSE, in_string |-> FALSE,
                              string_char |-> 34, prev_char |-> 0],
                             <<>>))
             \o <<10>>

\* s.replace("\n\n\n", "\n\n")
RECURSIVE replace_3nl(_)
replace_3nl(s) ==
    IF s = <<>> THEN <<>>
    ELSE IF starts_with(s, <<10, 10, 10>>)
        THEN <<10, 10>> \o replace_3nl(SubSeq(s, 4, Len(s)))
    ELSE <<Head(s)>> \o replace_3nl(Tail(s))

\* lines 165-167
RECURSIVE CollapseBlankLines(_)
CollapseBlankLines(result) ==
    IF contains(result, <<10, 10, 10>>)
    THEN CollapseBlankLines(replace_3nl(result))
    ELSE result

compress_content(content) ==
    LET ls      == lines(content)
        result0 == Flatten([i \in 1..Len(ls) |-> CompressLine(ls[i])])
        result1 == IF ~ends_with(content, <<10>>) /\ ends_with(result0, <<10>>)
                   THEN SubSeq(result0, 1, Len(result0) - 1)
                   ELSE result0
    IN  CollapseBlankLines(result1)

-----------------------------------------------------------------------------
(* group_files_by_type and format_output.  What format_output returns is   *)
(* kept as the pieces it pushes onto `output`, in order, each with the     *)
(* bytes pushed; the String is their concatenation.  In the JSON layout    *)
(* the String is serde_json's rendering of json_output, and the value      *)
(* rendered is what is kept.                                               *)

\* Path::extension(): what follows the last '.' of the file name; None when
\* the name has no '.' or its only '.' is the first byte
extension(path) ==
    LET f    == file_name(path)
        dots == {i \in 1..Len(f) : f[i] = 46}
    IN  IF dots = {} \/ dots = {1} THEN <<>>
        ELSE LET last == CHOOSE i \in dots : \A j \in dots : j <= i
             IN  <<SubSeq(f, last + 1, Len(f))>>

\* the arms of a `match ext` on string literals: the value of the first row
\* whose literal is ext, or the value of the `_` arm
MatchExt(table, ext, otherwise) ==
    IF \E i \in 1..Len(table) : table[i][1] = ext
    THEN table[CHOOSE i \in 1..Len(table) : table[i][1] = ext][2]
    ELSE otherwise

\* lines 332-352
GroupNames == <<
    \* "rs" => "Rust Source"
    <<<<114, 115>>,
      <<82, 117, 115, 116, 32, 83, 111, 117, 114, 99, 101>>>>,
    \* "py" => "Python Source"
    <<<<112, 121>>,
      <<80, 121, 116, 104, 111, 110, 32, 83, 111, 117, 114, 99, 101>>>>,
    \* "js" => "JavaScript Source"
    <<<<106, 115>>,
      <<74, 97, 118, 97, 83, 99, 114, 105, 112, 116, 32, 83, 111, 117, 114, 99, 101>>>>,
    \* "jsx" => "JavaScript Source"
    <<<<106, 115, 120>>,
      <<74, 97, 118, 97, 83, 99, 114, 105, 112, 116, 32, 83, 111, 117, 114, 99, 101>>>>,
    \* "ts" => "TypeScript Source"
    <<<<116, 115>>,
      <<84, 121, 112, 101, 83, 99, 114, 105, 112, 116, 32, 83, 111, 117, 114, 99, 101>>>>,
    \* "tsx" => "TypeScript Source"
    <<<<116, 115, 120>>,
      <<84, 121, 112, 101, 83, 99, 114, 105, 112, 116, 32, 83, 111, 117, 114, 99, 101>>>>,
    \* "html" => "HTML Templates"
    <<<<104, 116, 109, 108>>,
      <<72, 84, 77, 76, 32, 84, 101, 109, 112, 108, 97, 116, 101, 115>>>>,
    \* "htm" => "HTML Templates"
    <<<<104, 116, 109>>,
      <<72, 84, 77, 76, 32, 84, 101, 109, 112, 108, 97, 116, 101, 115>>>>,
    \* "css" => "Stylesheets"
    <<<<99, 115, 115>>,
      <<83, 116, 121, 108, 101, 115, 104, 101, 101, 116, 115>>>>,
    \* "scss" => "Stylesheets"
    <<<<115, 99, 115, 115>>,
      <<83, 116, 121, 108, 101, 115, 104, 101, 101, 116, 115>>>>,
    \* "sass" => "Stylesheets"
    <<<<115, 97, 115, 115>>,
      <<83, 116, 121, 108, 101, 115, 104, 101, 101, 116, 115>>>>,
    \* "json" => "JSON Configuration"
    <<<<106, 115, 111, 110>>,
      <<74, 83, 79, 78, 32, 67, 111, 110, 102, 105, 103, 117, 114, 97, 116, 105, 111, 110>>>>,
    \* "toml" => "TOML Configuration"
    <<<<116, 111, 109, 108>>,
      <<84, 79, 77, 76, 32, 67, 111, 110, 102, 105, 103, 117, 114, 97, 116, 105, 111, 110>>>>,
    \* "yml" => "YAML Configuration"
    <<<<121, 109, 108>>,
      <<89, 65, 77, 76, 32, 67, 111, 110, 102, 105, 103, 117, 114, 97, 116, 105, 111, 110>>>>,
    \* "yaml" => "YAML Configuration"
    <<<<121, 97, 109, 108>>,
      <<89, 65, 77, 76, 32, 67, 111, 110, 102, 105, 103, 117, 114, 97, 116, 105, 111, 110>>>>,
    \* "md" => "Documentation"
    <<<<109, 100>>,
      <<68, 111, 99, 117, 109, 101, 110, 116, 97, 116, 105, 111, 110>>>>,
    \* "markdown" => "Documentation"
    <<<<109, 97, 114, 107, 100, 111, 119, 110>>,
      <<68, 111, 99, 117, 109, 101, 110, 116, 97, 116, 105, 111, 110>>>>,
    \* "txt" => "Text Files"
    <<<<116, 120, 116>>,
      <<84, 101, 120, 116, 32, 70, 105, 108, 101, 115>>>>,
    \* "text" => "Text Files"
    <<<<116, 101, 120, 116>>,
      <<84, 101, 120, 116, 32, 70, 105, 108, 101, 115>>>>,
    \* "sh" => "Shell Scripts"
    <<<<115, 104>>,
      <<83, 104, 101, 108, 108, 32, 83, 99, 114, 105, 112, 116, 115>>>>,
    \* "bash" => "Shell Scripts"
    <<<<98, 97, 115, 104>>,
      <<83, 104, 101, 108, 108, 32, 83, 99, 114, 105, 112, 116, 115>>>>,
    \* "zsh" => "Shell Scripts"
    <<<<122, 115, 104>>,
      <<83, 104, 101, 108, 108, 32, 83, 99, 114, 105, 112, 116, 115>>>>,
    \* "sql" => "Database Scripts"
    <<<<115, 113, 108>>,
      <<68, 97, 116, 97, 98, 97, 115, 101, 32, 83, 99, 114, 105, 112, 116, 115>>>>,
    \* "go" => "Go Source"
    <<<<103, 111>>,
      <<71, 111, 32, 83, 111, 117, 114, 99, 101>>>>,
    \* "java" => "Java Source"
    <<<<106, 97, 118, 97>>,
      <<74, 97, 118, 97, 32, 83, 111, 117, 114, 99, 101>>>>,
    \* "c" => "C Source"
    <<<<99>>,
      <<67, 32, 83, 111, 117, 114, 99, 101>>>>,
    \* "h" => "C Source"
    <<<<104>>,
      <<67, 32, 83, 111, 117, 114, 99, 101>>>>,
    \* "cpp" => "C++ Source"
    <<<<99, 112, 112>>,
      <<67, 43, 43, 32, 83, 111, 117, 114, 99, 101>>>>,
    \* "hpp" => "C++ Source"
    <<<<104, 112, 112>>,
      <<67, 43, 43, 32, 83, 111, 117, 114, 99, 101>>>>,
    \* "cc" => "C++ Source"
    <<<<99, 99>>,
      <<67, 43, 43, 32, 83, 111, 117, 114, 99, 101>>>>,
    \* "no-extension" => "Files without extension"
    <<<<110, 111, 45, 101, 120, 116, 101, 110, 115, 105, 111, 110>>,
      <<70, 105, 108, 101, 115, 32, 119, 105, 116, 104, 111, 117, 116, 32, 101, 120, 116, 101, 110, 115, 105, 111, 110>>>>
    >>

\* "Other Files"
OtherFiles == <<79, 116, 104, 101, 114, 32, 70, 105, 108, 101, 115>>

\* "no-extension"
NoExtension == <<110, 111, 45, 101, 120, 116, 101, 110, 115, 105, 111, 110>>

\* lines 328-352: the group a file goes to
GroupOf(path) ==
    LET e   == extension(path)
        ext == IF e = <<>> THEN NoExtension ELSE e[1]
    IN  MatchExt(GroupNames, ext, OtherFiles)

\* lines 564-569 and 619-625
Languages == <<
    \* "rs" => "rust"
    <<<<114, 115>>,
      <<114, 117, 115, 116>>>>,
    \* "py" => "python"
    <<<<112, 121>>,
      <<112, 121, 116, 104, 111, 110>>>>,
    \* "js" => "javascript"
    <<<<106, 115>>,
      <<106, 97, 118, 97, 115, 99, 114, 105, 112, 116>>>>,
    \* "ts" => "typescript"
    <<<<116, 115>>,
      <<116, 121, 112, 101, 115, 99, 114, 105, 112, 116>>>>,
    \* "html" => "html"
    <<<<104, 116, 109, 108>>,
      <<104, 116, 109, 108>>>>,
    \* "css" => "css"
    <<<<99, 115, 115>>,
      <<99, 115, 115>>>>,
    \* "json" => "json"
    <<<<106, 115, 111, 110>>,
      <<106, 115, 111, 110>>>>,
    \* "toml" => "toml"
    <<<<116, 111, 109, 108>>,
      <<116, 111, 109, 108>>>>,
    \* "yml" => "yaml"
    <<<<121, 109, 108>>,
      <<121, 97, 109, 108>>>>,
    \* "yaml" => "yaml"
    <<<<121, 97, 109, 108>>,
      <<121, 97, 109, 108>>>>,
    \* "md" => "markdown"
    <<<<109, 100>>,
      <<109, 97, 114, 107, 100, 111, 119, 110>>>>,
    \* "sh" => "bash"
    <<<<115, 104>>,
      <<98, 97, 115, 104>>>>,
    \* "ps1" => "powershell"
    <<<<112, 115, 49>>,
      <<112, 111, 119, 101, 114, 115, 104, 101, 108, 108>>>>
    >>

LangOf(path) ==
    LET e   == extension(path)
        ext == IF e = <<>> THEN <<>> ELSE e[1]
    IN  MatchExt(Languages, ext, <<>>)

\* lines 325-355: the HashMap from group name to the files pushed under it,
\* each group's files in the order of `files`
GroupsMap(files) ==
    {[name  |-> n,
      files |-> SelectSeq(files, LAMBDA f : GroupOf(f[1]) = n)] :
        n \in {GroupOf(files[i][1]) : i \in 1..Len(files)}}

\* the key of sort_by_key at line 358, compared as a tuple
GroupKeyLess(a, b) ==
    \/ BytesLess(a.name, b.name)
    \/ a.name = b.name /\ Len(a.files) < Len(b.files)

\* lines 357-358: the groups ascending by key (no two groups share a name,
\* so the order HashMap::into_iter yields them in does not show)
RECURSIVE SortGroups(_)
SortGroups(G) ==
    IF G = {} THEN <<>>
    ELSE LET m == CHOOSE x \in G : \A y \in G \ {x} : GroupKeyLess(x, y)
         IN  <<m>> \o SortGroups(G \ {m})

Reverse(s) == [i \in 1..Len(s) |-> s[Len(s) + 1 - i]]

group_files_by_type(files) == Reverse(SortGroups(GroupsMap(files)))

\* one push onto `output`: what it is, the file it belongs to, its bytes
Piece(kind, path, bytes) == [kind |-> kind, path |-> path, bytes |-> bytes]

\* lines 552-556, 596-600, 613-617, 636-640
Processed(content, compressed) ==
    IF compressed THEN compress_content(content) ELSE content

\* lines 560-565 and 602-607
RenderDefault(path, processed_content) ==
    <<Piece("header", path, <<45, 45, 45, 32>> \o path \o <<32, 45, 45, 45, 10>>),
      Piece("content", path, processed_content)>>
    \o (IF ~ends_with(processed_content, <<10>>)
        THEN <<Piece("newline", path, <<10>>)>> ELSE <<>>)
    \o <<Piece("separator", path, <<10>>)>>

\* lines 568-583 and 619-632
RenderMarkdown(path, processed_content) ==
    <<Piece("header", path, <<35, 35, 32>> \o path \o <<10, 10>>),
      Piece("fence", path, <<96, 96, 96>> \o LangOf(path) \o <<10>>),
      Piece("content", path, processed_content)>>
    \o (IF ~ends_with(processed_content, <<10>>)
        THEN <<Piece("newline", path, <<10>>)>> ELSE <<>>)
    \o <<Piece("fence_end", path, <<96, 96, 96, 10, 10>>)>>

\* lines 551-588: one file of a group; the Json arm is empty
RenderGrouped(fmt, path, processed_content) ==
    IF fmt = "Default" THEN RenderDefault(path, processed_content)
    ELSE IF fmt = "Markdown" THEN RenderMarkdown(path, processed_content)
    ELSE <<>>

\* lines 549-590: one group
RenderGroup(fmt, g, compressed) ==
    <<Piece("group", <<>>, <<35, 32>> \o g.name \o <<10, 10>>)>>
    \o Flatten([i \in 1..Len(g.files) |->
            RenderGrouped(fmt, g.files[i][1],
                          Processed(g.files[i][2], compressed))])
    \o <<Piece("group_end", <<>>, <<10>>)>>

\* lines 636-649: one element of files_json
FileJson(path, processed_content) ==
    [path    |-> path,
     content |-> processed_content,
     tokens  |-> estimate_tokens(processed_content),
     size    |-> Len(processed_content)]

\* lines 634-670: json_output; an absent key is <<>>
JsonOutput(files, cli, tree, deps) ==
    [files |-> [i \in 1..Len(files) |->
                   FileJson(files[i][1], Processed(files[i][2], cli.compress))],
     metadata |->
        [total_files  |-> Len(files),
         total_size   |-> SumSeq([i \in 1..Len(files) |-> Len(files[i][2])]),
         total_tokens |-> SumSeq([i \in 1..Len(files) |->
                                     estimate_tokens(files[i][2])])],
     structure    |-> IF cli.include_structure THEN <<tree>> ELSE <<>>,
     dependencies |-> IF cli.include_dependencies THEN <<deps>> ELSE <<>>]

\* lines 536-545: what is pushed before the files
Preamble(cli, tree, deps) ==
    (IF cli.include_structure THEN <<Piece("structure", <<>>, tree)>> ELSE <<>>)
    \o (IF cli.include_dependencies /\ deps # <<>>
        THEN <<Piece("dependencies", <<>>, deps)>> ELSE <<>>)

\* format_output.  tree and deps are what generate_directory_tree and
\* find_dependencies return for cli.paths.  The value is the pieces pushed
\* and, when the String is the rendering of json_output, that value.
format_output(files, fmt, cli, tree, deps) ==
    IF cli.group_by_type
        THEN [pieces |-> Preamble(cli, tree, deps)
                         \o LET grouped == group_files_by_type(files)
                            IN  Flatten([k \in 1..Len(grouped) |->
                                    RenderGroup(fmt, grouped[k], cli.compress)]),
              json   |-> <<>>]
    ELSE IF fmt = "Default"
        THEN [pieces |-> Preamble(cli, tree, deps)
                         \o Flatten([i \in 1..Len(files) |->
                                RenderDefault(files[i][1],
                                    Processed(files[i][2], cli.compress))]),
              json   |-> <<>>]
    ELSE IF fmt = "Markdown"
        THEN [pieces |-> Preamble(cli, tree, deps)
                         \o Flatten([i \in 1..Len(files) |->
                                RenderMarkdown(files[i][1],
                                    Processed(files[i][2], cli.compress))]),
              json   |-> <<>>]
    ELSE [pieces |-> <<>>,
          json   |-> <<JsonOutput(files, cli, tree, deps)>>]

-----------------------------------------------------------------------------
(* write_output_chunks.  File 0 is output_file; file k >= 1 is the chunk    *)
(* file <stem>_part_<k, three digits>.<extension> beside it.  file_ops      *)
(* records each file opened (created and truncated, or opened for append)   *)
(* and the bytes write_all then put into it.  Opening and writing can fail, *)
(* and `?` then returns the error.                                          *)

FileOp(file, mode, bytes) == [file |-> file, mode |-> mode, bytes |-> bytes]

\* slice::chunks(n), n > 0
RECURSIVE ByteChunks(_, _)
ByteChunks(b, n) ==
    IF Len(b) = 0 THEN <<>>
    ELSE IF Len(b) <= n THEN <<b>>
    ELSE <<SubSeq(b, 1, n)>> \o ByteChunks(SubSeq(b, n + 1, Len(b)), n)

\* std::str::from_utf8(chunk).unwrap_or("")
ChunkStr(chunk) == IF from_utf8_ok(chunk) THEN chunk ELSE <<>>

OpenMode(app, first) == IF app /\ first THEN "append" ELSE "create"

\* lines 495-502: the output fits one file
WriteWhole ==
    /\ out_pc = "call"
    /\ Len(formatted_output) <= chunk_size
    /\ \/ /\ file_ops' = Append(file_ops, FileOp(0, OpenMode(append, TRUE), formatted_output))
          /\ out_pc' = "ok"
       \/ /\ file_ops' = Append(file_ops, FileOp(0, OpenMode(append, TRUE), <<>>))
          /\ out_pc' = "err"
       \/ /\ file_ops' = file_ops
          /\ out_pc' = "err"
    /\ UNCHANGED <<formatted_output, chunk_size, append, chunks, chunk_i,
                   tokVars, extVars, walkVars, renderVars>>

\* lines 504-511: split the bytes; chunks(0) panics
SplitChunks ==
    /\ out_pc = "call"
    /\ Len(formatted_output) > chunk_size
    /\ IF chunk_size = 0
       THEN /\ out_pc' = "panic"
            /\ chunks' = chunks
       ELSE /\ out_pc' = "loop"
            /\ chunks' = LET bs == ByteChunks(formatted_output, chunk_size)
                         IN  [k \in 1..Len(bs) |-> ChunkStr(bs[k])]
    /\ chunk_i' = 1
    /\ UNCHANGED <<formatted_output, chunk_size, append, file_ops,
                   tokVars, extVars, walkVars, renderVars>>

\* lines 513-528: one chunk file opened and written
WriteChunk ==
    /\ out_pc = "loop"
    /\ chunk_i <= Len(chunks)
    /\ file_ops' = Append(file_ops, FileOp(chunk_i, OpenMode(append, chunk_i = 1),
                                           chunks[chunk_i]))
    /\ chunk_i' = chunk_i + 1
    /\ UNCHANGED <<formatted_output, chunk_size, append, chunks, out_pc,
                   tokVars, extVars, walkVars, renderVars>>

\* lines 521-525: the open or the create fails
WriteChunkOpenFails ==
    /\ out_pc = "loop"
    /\ chunk_i <= Len(chunks)
    /\ out_pc' = "err"
    /\ UNCHANGED <<formatted_output, chunk_size, append, chunks, chunk_i, file_ops,
                   tokVars, extVars, walkVars, renderVars>>

\* line 526: the file is open and write_all fails
WriteChunkWriteFails ==
    /\ out_pc = "loop"
    /\ chunk_i <= Len(chunks)
    /\ file_ops' = Append(file_ops, FileOp(chunk_i, OpenMode(append, chunk_i = 1),
                                           <<>>))
    /\ out_pc' = "err"
    /\ UNCHANGED <<formatted_output, chunk_size, append, chunks, chunk_i,
                   tokVars, extVars, walkVars, renderVars>>

\* line 530
ChunksDone ==
    /\ out_pc = "loop"
    /\ chunk_i > Len(chunks)
    /\ out_pc' = "ok"
    /\ UNCHANGED <<formatted_output, chunk_size, append, chunks, chunk_i, file_ops,
                   tokVars, extVars, walkVars, renderVars>>

\* a  e-acute (2 bytes)  euro sign (3 bytes)
OutputAlphabet == {97, 233, 8364}

InitOut ==
    \* main writes only when files were admitted, and their rendering is
    \* never the empty string
    /\ formatted_output \in {StringOf(cps) :
            cps \in {c \in SeqsUpTo(OutputAlphabet, MaxOutputChars) : Len(c) >= 1}}
    /\ chunk_size \in 0..MaxChunkSize
    /\ append \in BOOLEAN
    /\ chunks = <<>>
    /\ chunk_i = 1
    /\ out_pc = "call"
    /\ file_ops = <<>>
    /\ IdleTokens
    /\ IdleExtract
    /\ IdleWalk
    /\ IdleRender

NextOut ==
    \/ WriteWhole
    \/ SplitChunks
    \/ WriteChunk
    \/ WriteChunkOpenFails
    \/ WriteChunkWriteFails
    \/ ChunksDone

SpecOut == InitOut /\ [][NextOut]_vars

-----------------------------------------------------------------------------
(* Claims about chunked output, checked under SpecOut.                     *)

\* the bytes written to the chunk files, in sequence order
ChunkBytesWritten ==
    LET ops == SelectSeq(file_ops, LAMBDA op : op.file >= 1)
    IN  [k \in 1..Len(ops) |-> ops[k].bytes]

\* C10: for a chunk size smaller than the artifact, the bytes written to the
\* chunk files, concatenated in sequence order, are the artifact byte for
\* byte, and every chunk but the last holds exactly chunk_size bytes.
C10_ChunkRoundTrip ==
    (out_pc = "ok" /\ Len(formatted_output) > chunk_size) =>
        /\ Flatten(ChunkBytesWritten) = formatted_output
        /\ \A k \in 1..(Len(ChunkBytesWritten) - 1) :
              Len(ChunkBytesWritten[k]) = chunk_size

\* C13: when write_output_chunks fails (a file cannot be opened or created,
\* or write_all fails, at the single file or at the k-th chunk file), no
\* output file and no chunk file has been created, truncated or written.
C13_NoPartialOutput == out_pc \in {"err", "panic"} => file_ops = <<>>

-----------------------------------------------------------------------------
(* Specification SpecTokens: estimate_tokens applied to every short text   *)
(* over an alphabet holding one character of each class the function       *)
(* distinguishes, and characters encoded in 1, 2 and 3 bytes.              *)

\* a  space  \n  {  .  e-acute  euro-sign
TokenAlphabet == {97, 32, 10, 123, 46, 233, 8364}

TokenTexts == {StringOf(cps) : cps \in SeqsUpTo(TokenAlphabet, MaxTextChars)}

InitTokens ==
    /\ text \in TokenTexts
    /\ estimated = 0
    /\ tok_pc = "call"
    /\ IdleExtract
    /\ IdleWalk
    /\ IdleOut
    /\ IdleRender

EstimateTokens ==
    /\ tok_pc = "call"
    /\ estimated' = estimate_tokens(text)
    /\ tok_pc' = "done"
    /\ UNCHANGED <<text, extVars, walkVars, outVars, renderVars>>

NextTokens == EstimateTokens

SpecTokens == InitTokens /\ [][NextTokens]_vars

-----------------------------------------------------------------------------
(* C8: estimate_tokens("") = 0, and for every non-empty text with `chars`  *)
(* Unicode scalars, ceil(chars/6) <= estimate_tokens(text) <= 2*chars.     *)
C8_TokenBound ==
    tok_pc = "done" =>
        LET n == Len(chars(text))
        IN  /\ (text = <<>> => estimated = 0)
            /\ (text # <<>> => CeilDiv(n, 6) <= estimated /\ estimated <= 2 * n)

-----------------------------------------------------------------------------
(* Specification SpecCompress: compress_content applied to every short     *)
(* text over an alphabet holding a letter, the two blanks it collapses,    *)
(* '\n', a quote, the backslash and a two-byte character.                  *)

MaxCompressChars == 4

CompressAlphabet == {97, 32, 9, 10, 34, 92, 233}

CompressTexts == {StringOf(cs) : cs \in SeqsUpTo(CompressAlphabet, MaxCompressChars)}

InitCompress ==
    /\ cmp_content \in CompressTexts
    /\ cmp_result = <<>>
    /\ cmp_pc = "call"
    /\ IdleTokens
    /\ IdleExtract
    /\ IdleWalk
    /\ IdleOut
    /\ IdleNormalize
    /\ IdleFormat

CompressContent ==
    /\ cmp_pc = "call"
    /\ cmp_result' = compress_content(cmp_content)
    /\ cmp_pc' = "done"
    /\ UNCHANGED <<cmp_content, tokVars, extVars, walkVars, outVars, normVars, fmtVars>>

NextCompress == CompressContent

SpecCompress == InitCompress /\ [][NextCompress]_vars

\* C17: the text compress_content returns ends with a newline exactly when
\* its input does, also when the input's last line is whitespace-only and
\* not newline-terminated.
C17_TrailingNewlineKept ==
    cmp_pc = "done" =>
        (ends_with(cmp_result, <<10>>) <=> ends_with(cmp_content, <<10>>))

-----------------------------------------------------------------------------
(* Specification SpecFormat: format_output called as main calls it, on a   *)
(* non-empty list of admitted files sorted by path, for each layout and    *)
(* each setting of the four switches it reads.  The paths cover two files  *)
(* of one group, a file without extension and an extension no arm names;   *)
(* the contents cover text that ends with a newline and text that does     *)
(* not, and text that compress_content changes.                            *)

MaxFormatFiles == 2

FormatPaths == {
    <<97, 46, 114, 115>>,  \* a.rs
    <<98, 46, 109, 100>>,  \* b.md
    <<99>>,  \* c
    <<100, 46, 120>>,  \* d.x
    <<101, 46, 114, 115>>   \* e.rs
    }

FormatContents == {
    <<120>>,  \* "x"
    <<97, 32, 32, 98, 10>>   \* "a  b\n"
    }

\* what generate_directory_tree returns for the one root p
ProjectStructure ==
    <<35, 35, 32, 80, 114, 111, 106, 101, 99, 116, 32, 83, 116, 114, 117, 99, 116, 117, 114, 101, 10, 10, 96, 96, 96, 10>>
    \o <<112, 47, 10>>
    \o <<96, 96, 96, 10, 10>>

\* what find_dependencies can return: nothing found, or a section
DependencyTexts == {<<>>,
    <<35, 35, 32, 68, 101, 112, 101, 110, 100, 101, 110, 99, 105, 101, 115, 10, 10>>}

FormatFileLists ==
    UNION {{[i \in 1..Len(ps) |-> <<ps[i], cs[i]>>] :
                cs \in [1..Len(ps) -> FormatContents]} :
           ps \in {SortedSeqOf(S) :
                      S \in {T \in SUBSET FormatPaths :
                                Cardinality(T) >= 1 /\ Cardinality(T) <= MaxFormatFiles}}}

InitFormat ==
    /\ fmt_files \in FormatFileLists
    /\ format \in {"Default", "Markdown", "Json"}
    /\ group_by_type \in BOOLEAN
    /\ compress \in BOOLEAN
    /\ include_structure \in BOOLEAN
    /\ include_dependencies \in BOOLEAN
    /\ fmt_output = <<>>
    /\ fmt_pc = "call"
    /\ IdleTokens
    /\ IdleExtract
    /\ IdleWalk
    /\ IdleOut
    /\ IdleNormalize
    /\ IdleCompress

FormatOutput ==
    /\ fmt_pc = "call"
    /\ \E deps \in DependencyTexts :
          fmt_output' = format_output(fmt_files, format,
                            [group_by_type        |-> group_by_type,
                             compress             |-> compress,
                             include_structure    |-> include_structure,
                             include_dependencies |-> include_dependencies],
                            ProjectStructure, deps)
    /\ fmt_pc' = "done"
    /\ UNCHANGED <<fmt_files, format, group_by_type, compress, include_structure,
                   include_dependencies, tokVars, extVars, walkVars, outVars,
                   normVars, cmpVars>>

NextFormat == FormatOutput

SpecFormat == InitFormat /\ [][NextFormat]_vars

-----------------------------------------------------------------------------
(* Claims about rendering, checked under SpecFormat.                       *)

\* the (path, content) pairs an artifact shows, in its order: the entries
\* of the JSON document, or the content pushed under each file header
RenderedFiles(out) ==
    IF out.json # <<>>
    THEN [i \in 1..Len(out.json[1].files) |->
             <<out.json[1].files[i].path, out.json[1].files[i].content>>]
    ELSE LET cs == SelectSeq(out.pieces, LAMBDA q : q.kind = "content")
         IN  [i \in 1..Len(cs) |-> <<cs[i].path, cs[i].bytes>>]

HeaderPaths(out) ==
    LET hs == SelectSeq(out.pieces, LAMBDA q : q.kind = "header")
    IN  [i \in 1..Len(hs) |-> hs[i].path]

\* C14: in each of the three layouts, grouped or not, the artifact shows
\* every admitted file exactly once, its path with its (processed) content;
\* the JSON layout yields the JSON document also when grouping is on.
C14_EveryFileOnce ==
    fmt_pc = "done" =>
        /\ Len(RenderedFiles(fmt_output)) = Len(fmt_files)
        /\ \A i \in 1..Len(fmt_files) :
              \E k \in 1..Len(RenderedFiles(fmt_output)) :
                  RenderedFiles(fmt_output)[k]
                      = <<fmt_files[i][1], Processed(fmt_files[i][2], compress)>>
        /\ fmt_output.json = <<>> =>
              HeaderPaths(fmt_output) = PathsOf(RenderedFiles(fmt_output))
        /\ format = "Json" => fmt_output.json # <<>>

\* C20: in the JSON document, for every admitted set and either setting of
\* cli.compress, metadata.total_files is the number of entries,
\* metadata.total_size the sum of their size fields and
\* metadata.total_tokens the sum of their tokens fields.
C20_JsonTotalsAgree ==
    (fmt_pc = "done" /\ fmt_output.json # <<>>) =>
        LET doc == fmt_output.json[1]
        IN  /\ doc.metadata.total_files = Len(doc.files)
            /\ doc.metadata.total_size
                   = SumSeq([i \in 1..Len(doc.files) |-> doc.files[i].size])
            /\ doc.metadata.total_tokens
                   = SumSeq([i \in 1..Len(doc.files) |-> doc.files[i].tokens])

-----------------------------------------------------------------------------
(* Specification SpecNormalize: lines 816-819 of process_single_file       *)
(* applied to every short decoded content over an alphabet holding '\r',   *)
(* '\n', U+FEFF, an ASCII letter and a two-byte character.                 *)

MaxContentChars == 3

NormalizeAlphabet == {97, 13, 10, 233, 65279}

NormalizeContents == {StringOf(cs) : cs \in SeqsUpTo(NormalizeAlphabet, MaxContentChars)}

InitNormalize ==
    /\ norm_content \in NormalizeContents
    /\ norm_result = <<>>
    /\ norm_pc = "call"
    /\ IdleTokens
    /\ IdleExtract
    /\ IdleWalk
    /\ IdleOut
    /\ IdleCompress
    /\ IdleFormat

NormalizeContent ==
    /\ norm_pc = "call"
    /\ norm_result' = Normalize(norm_content)
    /\ norm_pc' = "done"
    /\ UNCHANGED <<norm_content, tokVars, extVars, walkVars, outVars, cmpVars, fmtVars>>

NextNormalize == NormalizeContent

SpecNormalize == InitNormalize /\ [][NextNormalize]_vars

\* C11: content that has no leading byte-order marker and no CRLF
\* sequence comes out of the loader's normalization unchanged.
C11_NormalizedIsFixed ==
    (/\ norm_pc = "done"
     /\ ~starts_with(norm_content, BOM)
     /\ ~contains(norm_content, <<13, 10>>))
        => norm_result = norm_content

\* such a content with a lone '\r', a lone '\n' and a U+FEFF that is not
\* leading, normalized
C11_Witness ==
    /\ norm_pc = "done"
    /\ ~starts_with(norm_content, BOM)
    /\ ~contains(norm_content, <<13, 10>>)
    /\ contains(norm_content, <<13>>)
    /\ contains(norm_content, BOM)
    /\ norm_result = norm_content

=============================================================================
